---------------------------- MODULE Spec2Model ----------------------------
(***************************************************************************)
(* Model of DataPulse-Africa/credit_risk:                                  *)
(*   src/climate_risk.py    ClimateRiskScreeningTool (ESG screening,       *)
(*                          weighted climate score, report)                *)
(*   src/risk_score_app.py  loan eligibility decision                      *)
(*                                                                         *)
(* Representation.                                                         *)
(*  - A Python str is a sequence of one-character strings, so that         *)
(*    str.lower() and the `in` substring test are computed, not assumed.   *)
(*  - Sub-factor scores, physical_risk_score and transition_risk_score are *)
(*    integers in hundredths (4.5 is 450).  Weights are integers in        *)
(*    hundredths (0.25 is 25), the blend factors 0.6 and 0.4 are 6 and 4   *)
(*    tenths.  A composite score is therefore an integer in units of       *)
(*    10^-5 (ScoreScale); 5.004 is 500400.  The arithmetic is exact; the   *)
(*    binary rounding error of Python floats is not modelled.              *)
(*  - revenue and carbon_footprint are integers; their quotient is a       *)
(*    tagged value (finite fraction, inf, -inf, nan) as numpy produces it. *)
(*  - The state of one run is the tool's two tables plus the last call:    *)
(*    op (which operation ran), args (its input), ret (what it returned).  *)
(*    reports counts the generate_report calls the tool has served.        *)
(***************************************************************************)
EXTENDS Integers, Sequences, FiniteSets, TLC

VARIABLES esg_exclusion_list, climate_risk_factors, op, args, ret, reports

vars == <<esg_exclusion_list, climate_risk_factors, op, args, ret, reports>>

---------------------------------------------------------------------------
(* Strings                                                                 *)

UpperLetters == <<"A","B","C","D","E","F","G","H","I","J","K","L","M",
                  "N","O","P","Q","R","S","T","U","V","W","X","Y","Z">>

LowerLetters == <<"a","b","c","d","e","f","g","h","i","j","k","l","m",
                  "n","o","p","q","r","s","t","u","v","w","x","y","z">>

\* str.lower() on one character
lower_char(c) ==
    IF \E i \in 1..26 : UpperLetters[i] = c
    THEN LowerLetters[CHOOSE i \in 1..26 : UpperLetters[i] = c]
    ELSE c

\* str.lower()
lower(s) == [i \in 1..Len(s) |-> lower_char(s[i])]

\* Python `sub in s` for strings: sub occurs as a contiguous run of s
contains(s, sub) ==
    \E k \in 0..(Len(s) - Len(sub)) :
        \A i \in 1..Len(sub) : s[k + i] = sub[i]

---------------------------------------------------------------------------
(* The static tables built by __init__                                     *)

InitExclusionList == <<
    [category |-> "fossil_fuels", industries |-> <<
        <<"c","o","a","l","_","m","i","n","i","n","g">>,
        <<"o","i","l","_","g","a","s","_","e","x","t","r","a","c","t","i","o","n">>,
        <<"f","o","s","s","i","l","_","p","o","w","e","r","_","g","e","n","e","r","a","t","i","o","n">> >>],
    [category |-> "controversial_weapons", industries |-> <<
        <<"c","l","u","s","t","e","r","_","m","u","n","i","t","i","o","n","s">>,
        <<"l","a","n","d","m","i","n","e","s">>,
        <<"n","u","c","l","e","a","r","_","w","e","a","p","o","n","s">> >>],
    [category |-> "ethical_concerns", industries |-> <<
        <<"t","o","b","a","c","c","o">>,
        <<"g","a","m","b","l","i","n","g">>,
        <<"a","d","u","l","t","_","e","n","t","e","r","t","a","i","n","m","e","n","t">> >>],
    [category |-> "environmental_violations", industries |-> <<
        <<"d","e","f","o","r","e","s","t","a","t","i","o","n">>,
        <<"h","i","g","h","_","e","m","i","s","s","i","o","n","_","o","p","e","r","a","t","i","o","n","s">> >>] >>

InitRiskFactors == [
    physical_risk |-> <<
        [factor |-> "flood_risk", weight |-> 25],
        [factor |-> "heat_stress", weight |-> 20],
        [factor |-> "sea_level_rise", weight |-> 15],
        [factor |-> "wildfire_risk", weight |-> 15] >>,
    transition_risk |-> <<
        [factor |-> "carbon_price_exposure", weight |-> 25],
        [factor |-> "regulatory_compliance", weight |-> 20],
        [factor |-> "technology_disruption", weight |-> 15] >> ]

---------------------------------------------------------------------------
(* screen_esg_exclusions                                                   *)

\* any(industry in company_industry for industry in industries)
any_industry_in(industries, company_industry) ==
    \E j \in 1..Len(industries) : contains(company_industry, industries[j])

\* variant of screen_loop: a matching category is put at the front
RECURSIVE screen_loop_prepend(_, _, _)
screen_loop_prepend(exclusions, company_industry, n) ==
    IF n = 0 THEN << >>
    ELSE LET violations == screen_loop_prepend(exclusions, company_industry, n - 1)
         IN  IF any_industry_in(exclusions[n].industries, company_industry)
             THEN <<exclusions[n].category>> \o violations
             ELSE violations

\* the for loop over esg_exclusion_list.items(): violations after the
\* first n categories
RECURSIVE screen_loop(_, _, _)
screen_loop(exclusions, company_industry, n) ==
    IF n = 0 THEN << >>
    ELSE LET violations == screen_loop(exclusions, company_industry, n - 1)
         IN  IF any_industry_in(exclusions[n].industries, company_industry)
             THEN Append(violations, exclusions[n].category)
             ELSE violations

screen_esg_exclusions(exclusions, industry) ==
    LET company_industry == lower(industry)
        violations == screen_loop(exclusions, company_industry, Len(exclusions))
    IN  [compliant |-> Len(violations) = 0, violations |-> violations]

---------------------------------------------------------------------------
(* calculate_climate_risk_score                                            *)

ScoreScale == 100000

\* f"{factor}_score"
score_column(factor) == factor \o "_score"

\* sum(company_data[f"{factor}_score"].iloc[0] * weight for factor, weight
\*     in dimension.items()) over the first n entries
RECURSIVE weighted_sum(_, _, _)
weighted_sum(dimension, company_data, n) ==
    IF n = 0 THEN 0
    ELSE weighted_sum(dimension, company_data, n - 1)
         + company_data[score_column(dimension[n].factor)] * dimension[n].weight

\* a lookup of a column that the frame does not have raises KeyError
raises_KeyError(dimension, company_data) ==
    \E n \in 1..Len(dimension) :
        score_column(dimension[n].factor) \notin DOMAIN company_data

\* variant of calculate_climate_risk_score: the dimensions are added
\* without the 0.6 / 0.4 blend
calculate_climate_risk_score_unblended(factors, company_data) ==
    IF \/ raises_KeyError(factors.physical_risk, company_data)
       \/ raises_KeyError(factors.transition_risk, company_data)
    THEN 0
    ELSE 10 * weighted_sum(factors.physical_risk, company_data,
                           Len(factors.physical_risk))
         + 10 * weighted_sum(factors.transition_risk, company_data,
                             Len(factors.transition_risk))

\* the try block returns 0.6 * physical + 0.4 * transition; the except
\* block logs and returns 0.0
calculate_climate_risk_score(factors, company_data) ==
    IF \/ raises_KeyError(factors.physical_risk, company_data)
       \/ raises_KeyError(factors.transition_risk, company_data)
    THEN 0
    ELSE LET physical_score ==
                 weighted_sum(factors.physical_risk, company_data,
                              Len(factors.physical_risk))
             transition_score ==
                 weighted_sum(factors.transition_risk, company_data,
                              Len(factors.transition_risk))
         IN  6 * physical_score + 4 * transition_score

---------------------------------------------------------------------------
(* carbon_footprint / revenue on numpy scalars: division by zero gives     *)
(* inf, -inf or nan (with a RuntimeWarning), never an exception            *)

divide(a, b) ==
    IF b = 0
    THEN IF a = 0 THEN [kind |-> "nan"]
         ELSE IF a > 0 THEN [kind |-> "inf"] ELSE [kind |-> "-inf"]
    ELSE [kind |-> "finite", num |-> a, den |-> b]

\* q > n; every comparison with nan is False
greater_than(q, n) ==
    \/ q.kind = "inf"
    \/ /\ q.kind = "finite"
       /\ IF q.den > 0 THEN q.num > n * q.den ELSE q.num < n * q.den

\* q < n
less_than(q, n) ==
    \/ q.kind = "-inf"
    \/ /\ q.kind = "finite"
       /\ IF q.den > 0 THEN q.num < n * q.den ELSE q.num > n * q.den

---------------------------------------------------------------------------
(* identify_esg_risks, assess_opportunities                                *)

\* variant of identify_esg_risks: the thresholds are inclusive
identify_esg_risks_inclusive(company_data) ==
    LET risks0 == << >>
        q == divide(company_data["carbon_footprint"], company_data["revenue"])
        risks1 == IF ~less_than(q, 100) /\ q.kind # "nan"
                  THEN Append(risks0, "High carbon intensity") ELSE risks0
        risks2 == IF company_data["physical_risk_score"] >= 700
                  THEN Append(risks1, "High physical climate risk") ELSE risks1
        risks3 == IF company_data["transition_risk_score"] >= 600
                  THEN Append(risks2, "High transition risk") ELSE risks2
    IN  risks3

identify_esg_risks(company_data) ==
    LET risks0 == << >>
        risks1 == IF greater_than(divide(company_data["carbon_footprint"],
                                         company_data["revenue"]), 100)
                  THEN Append(risks0, "High carbon intensity") ELSE risks0
        risks2 == IF company_data["physical_risk_score"] > 700
                  THEN Append(risks1, "High physical climate risk") ELSE risks1
        risks3 == IF company_data["transition_risk_score"] > 600
                  THEN Append(risks2, "High transition risk") ELSE risks2
    IN  risks3

assess_opportunities(company_data) ==
    LET opps0 == << >>
        opps1 == IF contains(lower(company_data["industry"]),
                             <<"r","e","n","e","w","a","b","l","e">>)
                 THEN Append(opps0, "Renewable energy market growth") ELSE opps0
        opps2 == IF less_than(divide(company_data["carbon_footprint"],
                                     company_data["revenue"]), 50)
                 THEN Append(opps1, "Low-carbon competitive advantage") ELSE opps1
        opps3 == IF contains(lower(company_data["industry"]),
                             <<"g","r","e","e","n">>)
                 THEN Append(opps2, "Green technology innovation") ELSE opps2
    IN  opps3

---------------------------------------------------------------------------
(* _generate_recommendation; the score is in units of 1/ScoreScale         *)

DoNotProceed == "Do not proceed - ESG exclusion list violations detected"
HighRisk     == "High risk - requires detailed due diligence"
ModerateRisk == "Moderate risk - proceed with caution"
LowRisk      == "Low risk - suitable for investment consideration"

\* variant of _generate_recommendation: the thresholds are inclusive
_generate_recommendation_inclusive(esg_compliant, climate_risk_score) ==
    IF ~esg_compliant THEN DoNotProceed
    ELSE IF climate_risk_score >= 8 * ScoreScale THEN HighRisk
    ELSE IF climate_risk_score >= 5 * ScoreScale THEN ModerateRisk
    ELSE LowRisk

_generate_recommendation(esg_compliant, climate_risk_score) ==
    IF ~esg_compliant THEN DoNotProceed
    ELSE IF climate_risk_score > 8 * ScoreScale THEN HighRisk
    ELSE IF climate_risk_score > 5 * ScoreScale THEN ModerateRisk
    ELSE LowRisk

---------------------------------------------------------------------------
(* generate_report                                                         *)

required_columns == {"company_name", "industry", "location", "revenue",
                     "carbon_footprint", "physical_risk_score",
                     "transition_risk_score"}

\* load_company_data raises ValueError unless every required column exists
load_raises(company_data) == ~(required_columns \subseteq DOMAIN company_data)

\* round(x, 2): x in units of 1/ScoreScale, result in hundredths, ties to even
round2(x) ==
    LET q == x \div 1000
        r == x % 1000
    IN  IF r > 500 THEN q + 1
        ELSE IF r < 500 THEN q
        ELSE IF q % 2 = 0 THEN q ELSE q + 1

\* the empty dict returned by the except block
EmptyReport == [x \in {} |-> x]

\* variant of generate_report: the score is rounded before it is classified
generate_report_rounded_first(exclusions, factors, company_data) ==
    IF load_raises(company_data) THEN EmptyReport
    ELSE LET screening == screen_esg_exclusions(exclusions, company_data["industry"])
             climate_risk_score ==
                 round2(calculate_climate_risk_score(factors, company_data))
         IN  [company_name |-> company_data["company_name"],
              esg_compliant |-> screening.compliant,
              esg_violations |-> screening.violations,
              climate_risk_score |-> climate_risk_score,
              esg_risks |-> identify_esg_risks(company_data),
              climate_opportunities |-> assess_opportunities(company_data),
              recommendation |-> _generate_recommendation(screening.compliant,
                                                          climate_risk_score * 1000)]

generate_report(exclusions, factors, company_data) ==
    IF load_raises(company_data) THEN EmptyReport
    ELSE LET screening == screen_esg_exclusions(exclusions, company_data["industry"])
             esg_compliant == screening.compliant
             esg_violations == screening.violations
             climate_risk_score == calculate_climate_risk_score(factors, company_data)
             esg_risks == identify_esg_risks(company_data)
             opportunities == assess_opportunities(company_data)
         IN  [company_name |-> company_data["company_name"],
              esg_compliant |-> esg_compliant,
              esg_violations |-> esg_violations,
              climate_risk_score |-> round2(climate_risk_score),
              esg_risks |-> esg_risks,
              climate_opportunities |-> opportunities,
              recommendation |-> _generate_recommendation(esg_compliant,
                                                          climate_risk_score)]

---------------------------------------------------------------------------
(* risk_score_app.py: one submission of the loan form                      *)

\* risk_data.get("risk_score", 0)
get_risk_score(risk_data) ==
    IF "risk_score" \in DOMAIN risk_data THEN risk_data["risk_score"] ELSE 0

\* variant of decide: the amount cap is exclusive
decide_exclusive_cap(risk_score, loan_amount) ==
    IF risk_score >= 700
    THEN [decision |-> "Approved", reason |-> "Low risk"]
    ELSE IF 500 <= risk_score /\ risk_score < 700 /\ loan_amount < 50000
    THEN [decision |-> "Approved", reason |-> "Medium risk (limited amount)"]
    ELSE [decision |-> "Rejected", reason |-> "High risk"]

\* Step 2: Decision Logic
decide(risk_score, loan_amount) ==
    LET decision0 == "Rejected"
        reason0 == "High risk"
    IN  IF risk_score >= 700
        THEN [decision |-> "Approved", reason |-> "Low risk"]
        ELSE IF 500 <= risk_score /\ risk_score < 700 /\ loan_amount <= 50000
        THEN [decision |-> "Approved", reason |-> "Medium risk (limited amount)"]
        ELSE [decision |-> decision0, reason |-> reason0]

\* One run of the script after "Check Eligibility".  response is the
\* outcome of the API call: [ok |-> FALSE] when requests.get or
\* raise_for_status raises, else [ok |-> TRUE, json |-> risk_data].
loan_check(user_id, loan_amount, response, slack_configured) ==
    IF user_id = "" THEN [shown |-> "Please enter a User ID!"]
    ELSE IF ~response.ok THEN [shown |-> "API Error"]
    ELSE LET risk_score == get_risk_score(response.json)
             d == decide(risk_score, loan_amount)
         IN  [shown |-> "Results",
              risk_score |-> risk_score,
              decision |-> d.decision,
              reason |-> d.reason,
              alert |-> (d.decision = "Rejected" /\ slack_configured)]

---------------------------------------------------------------------------
(* Inputs                                                                  *)

\* number of generate_report calls one tool serves
MaxReports == 2

\* longest industry text, in words, handed to the string operations
MaxWords == 2

Words == {
    <<"c","o","a","l","_","m","i","n","i","n","g">>,
    <<"O","I","L","_","G","A","S","_","E","X","T","R","A","C","T","I","O","N">>,
    <<"T","o","b","a","c","c","o">>,
    <<"l","a","n","d","m","i","n","e","s">>,
    <<"d","e","f","o","r","e","s","t","a","t","i","o","n">>,
    <<"R","e","n","e","w","a","b","l","e">>,
    <<"G","r","e","e","n">>,
    <<"c","o","a","l">>,
    <<"_","m","i","n","i","n","g">>,
    <<" ","E","n","e","r","g","y">> }

RECURSIVE Texts(_)
Texts(n) ==
    IF n = 0 THEN { << >> }
    ELSE Texts(n - 1) \cup { u \o w : u \in Texts(n - 1), w \in Words }

Industries == Texts(MaxWords)

\* industry texts used in whole reports
ReportIndustries == {
    <<>>,
    <<"R","e","n","e","w","a","b","l","e"," ","E","n","e","r","g","y">>,
    <<"c","o","a","l","_","m","i","n","i","n","g">>,
    <<"T","o","b","a","c","c","o"," ","a","n","d"," ","O","I","L","_","G","A","S","_","E","X","T","R","A","C","T","I","O","N">>,
    <<"G","r","e","e","n"," ","T","e","c","h">>,
    <<"c","o","a","l"," ","m","i","n","i","n","g">> }

FactorColumns == {"flood_risk_score", "heat_stress_score", "sea_level_rise_score",
                  "wildfire_risk_score", "carbon_price_exposure_score",
                  "regulatory_compliance_score", "technology_disruption_score"}

\* the values of the input form as it is first rendered; revenue and
\* carbon_footprint are counted in millions
DefaultCompany == [
    company_name |-> "GreenTech Solutions",
    industry |-> <<"R","e","n","e","w","a","b","l","e"," ","E","n","e","r","g","y">>,
    location |-> "California",
    revenue |-> 100,
    carbon_footprint |-> 2,
    physical_risk_score |-> 450,
    transition_risk_score |-> 320,
    flood_risk_score |-> 500,
    heat_stress_score |-> 400,
    sea_level_rise_score |-> 350,
    wildfire_risk_score |-> 500,
    carbon_price_exposure_score |-> 300,
    regulatory_compliance_score |-> 350,
    technology_disruption_score |-> 300 ]

PhysicalColumns == {"flood_risk_score", "heat_stress_score",
                    "sea_level_rise_score", "wildfire_risk_score"}

TransitionColumns == FactorColumns \ PhysicalColumns

\* sub-factor columns: the corners of [0,10] in each dimension against the
\* uniform corners of the other, three uniform settings (two of them out
\* of range), and the form's values with one column absent
FactorInputs ==
    { p @@ [c \in TransitionColumns |-> v] :
        p \in [PhysicalColumns -> {0, 1000}], v \in {0, 1000} }
    \cup { [c \in PhysicalColumns |-> v] @@ t :
        v \in {0, 1000}, t \in [TransitionColumns -> {0, 1000}] }
    \cup { [c \in FactorColumns |-> v] : v \in {-100, 725, 2000} }
    \cup { [c \in FactorColumns \ {m} |-> DefaultCompany[c]] : m \in FactorColumns }

RevenueValues == {0, 1, 2}
CarbonValues == {-50, 0, 49, 50, 100, 101, 200}
PhysicalValues == {700, 701}
TransitionValues == {600, 601}

\* the columns read by identify_esg_risks and the ratio rule
RatioInputs ==
    { [revenue |-> r, carbon_footprint |-> c,
       physical_risk_score |-> p, transition_risk_score |-> t] :
        r \in RevenueValues, c \in CarbonValues,
        p \in PhysicalValues, t \in TransitionValues }

CompanyInputs ==
    { (i :> ind) @@ f @@ q @@ DefaultCompany :
        i \in {"industry"}, ind \in ReportIndustries,
        f \in FactorInputs, q \in RatioInputs }
    \cup { [c \in (DOMAIN DefaultCompany) \ (FactorColumns \cup {m}) |-> DefaultCompany[c]] @@ f :
             m \in required_columns, f \in FactorInputs }

\* composite scores handed directly to _generate_recommendation
ScoreInputs == {-100000, 0, 275500, 499999, 500000, 500001, 500400, 690000,
                799999, 800000, 800001, 800010, 1000000, 1380000}

RiskScoreValues == {-1, 0, 499, 500, 501, 550, 699, 700, 701, 750, 1000}
LoanAmountValues == {1000, 49999, 50000, 50001, 60000, 1000000}

ApiResponses ==
    { [ok |-> FALSE] }
    \cup { [ok |-> TRUE, json |-> [user_id |-> "CUST-12345"]] }
    \cup { [ok |-> TRUE, json |-> [risk_score |-> r]] : r \in RiskScoreValues }

---------------------------------------------------------------------------
(* State machine                                                           *)

None == [none |-> TRUE]

Init ==
    /\ esg_exclusion_list = InitExclusionList
    /\ climate_risk_factors = InitRiskFactors
    /\ op = "idle"
    /\ args = None
    /\ ret = None
    /\ reports = 0

Screen ==
    /\ op = "idle"
    /\ \E industry \in Industries :
        /\ args' = [industry |-> industry]
        /\ ret' = screen_esg_exclusions(esg_exclusion_list, industry)
    /\ op' = "screen_esg_exclusions"
    /\ UNCHANGED <<esg_exclusion_list, climate_risk_factors, reports>>

Score ==
    /\ op = "idle"
    /\ \E company_data \in FactorInputs :
        /\ args' = company_data
        /\ ret' = calculate_climate_risk_score(climate_risk_factors, company_data)
    /\ op' = "calculate_climate_risk_score"
    /\ UNCHANGED <<esg_exclusion_list, climate_risk_factors, reports>>

Risks ==
    /\ op = "idle"
    /\ \E company_data \in RatioInputs :
        /\ args' = company_data
        /\ ret' = identify_esg_risks(company_data)
    /\ op' = "identify_esg_risks"
    /\ UNCHANGED <<esg_exclusion_list, climate_risk_factors, reports>>

Opportunities ==
    /\ op = "idle"
    /\ \E industry \in Industries, r \in RevenueValues, c \in CarbonValues :
        /\ args' = [industry |-> industry, revenue |-> r, carbon_footprint |-> c]
        /\ ret' = assess_opportunities(args')
    /\ op' = "assess_opportunities"
    /\ UNCHANGED <<esg_exclusion_list, climate_risk_factors, reports>>

Recommend ==
    /\ op = "idle"
    /\ \E esg_compliant \in BOOLEAN, climate_risk_score \in ScoreInputs :
        /\ args' = [esg_compliant |-> esg_compliant,
                    climate_risk_score |-> climate_risk_score]
        /\ ret' = _generate_recommendation(esg_compliant, climate_risk_score)
    /\ op' = "_generate_recommendation"
    /\ UNCHANGED <<esg_exclusion_list, climate_risk_factors, reports>>

\* variant of GenerateReport: the screening consumes the categories it reports
GenerateReport_consuming ==
    /\ op = "idle"
    /\ reports < MaxReports
    /\ \E company_data \in CompanyInputs :
        /\ args' = company_data
        /\ ret' = generate_report(esg_exclusion_list, climate_risk_factors,
                                  company_data)
        /\ esg_exclusion_list' =
               IF "esg_violations" \in DOMAIN ret'
               THEN SelectSeq(esg_exclusion_list,
                              LAMBDA e : e.category \notin
                                  { ret'.esg_violations[i] :
                                      i \in 1..Len(ret'.esg_violations) })
               ELSE esg_exclusion_list
    /\ op' = "generate_report"
    /\ reports' = reports + 1
    /\ UNCHANGED climate_risk_factors

GenerateReport ==
    /\ op = "idle"
    /\ reports < MaxReports
    /\ \E company_data \in CompanyInputs :
        /\ args' = company_data
        /\ ret' = generate_report(esg_exclusion_list, climate_risk_factors,
                                  company_data)
    /\ op' = "generate_report"
    /\ reports' = reports + 1
    /\ UNCHANGED <<esg_exclusion_list, climate_risk_factors>>

LoanCheck ==
    /\ op = "idle"
    /\ \E user_id \in {"", "CUST-12345"}, loan_amount \in LoanAmountValues,
          response \in ApiResponses, slack_configured \in BOOLEAN :
        /\ args' = [user_id |-> user_id, loan_amount |-> loan_amount,
                    response |-> response, slack_configured |-> slack_configured]
        /\ ret' = loan_check(user_id, loan_amount, response, slack_configured)
    /\ op' = "loan_check"
    /\ UNCHANGED <<esg_exclusion_list, climate_risk_factors, reports>>

\* the caller has taken the result; the tool is ready for the next call
Return ==
    /\ op # "idle"
    /\ op' = "idle"
    /\ args' = None
    /\ ret' = None
    /\ UNCHANGED <<esg_exclusion_list, climate_risk_factors, reports>>

Next ==
    \/ Screen
    \/ Score
    \/ Risks
    \/ Opportunities
    \/ Recommend
    \/ GenerateReport
    \/ LoanCheck
    \/ Return

Spec == Init /\ [][Next]_vars

---------------------------------------------------------------------------
(* Properties                                                              *)

\* C1: _generate_recommendation returns the first matching rule: not
\* compliant gives "Do not proceed" whatever the score; otherwise a score
\* strictly above 8 gives High, strictly above 5 gives Moderate, anything
\* else Low, so exactly 8 is Moderate and exactly 5 is Low.
C1_RecommendationRules ==
    op = "_generate_recommendation" =>
        LET c == args.esg_compliant
            x == args.climate_risk_score
        IN  /\ ~c => ret = DoNotProceed
            /\ (c /\ x > 8 * ScoreScale) => ret = HighRisk
            /\ (c /\ 5 * ScoreScale < x /\ x <= 8 * ScoreScale) => ret = ModerateRisk
            /\ (c /\ x <= 5 * ScoreScale) => ret = LowRisk
            /\ (c /\ x = 8 * ScoreScale) => ret = ModerateRisk
            /\ (c /\ x = 5 * ScoreScale) => ret = LowRisk

C1_Witness ==
    /\ op = "_generate_recommendation"
    /\ args.esg_compliant
    /\ args.climate_risk_score = 8 * ScoreScale
    /\ ret = ModerateRisk

\* C2: the loan decision is Approved/"Low risk" for a risk score of at
\* least 700 whatever the amount, Approved/"Medium risk (limited amount)"
\* for a score in [500, 700) with an amount of at most 50000, and
\* Rejected/"High risk" in every other case.
C2_LoanDecision ==
    (op = "loan_check" /\ ret.shown = "Results") =>
        LET r == ret.risk_score
            a == args.loan_amount
            low == r >= 700
            medium == r >= 500 /\ r < 700 /\ a <= 50000
        IN  /\ low => (ret.decision = "Approved" /\ ret.reason = "Low risk")
            /\ medium => (ret.decision = "Approved"
                          /\ ret.reason = "Medium risk (limited amount)")
            /\ (~low /\ ~medium) => (ret.decision = "Rejected"
                                     /\ ret.reason = "High risk")
            /\ (r = 699 /\ a = 50000) => ret.decision = "Approved"
            /\ (r = 699 /\ a = 50001) => ret.decision = "Rejected"
            /\ (r = 550 /\ a = 60000) => ret.decision = "Rejected"

C2_Witness ==
    /\ op = "loan_check"
    /\ ret.shown = "Results"
    /\ ret.risk_score = 699
    /\ args.loan_amount = 50000
    /\ ret.decision = "Approved"
    /\ ret.reason = "Medium risk (limited amount)"

\* the taxonomy's categories in definition order
TaxonomyOrder == <<"fossil_fuels", "controversial_weapons",
                   "ethical_concerns", "environmental_violations">>

\* position of a category in the definition order
TaxonomyIndex(category) == CHOOSE i \in 1..Len(TaxonomyOrder) : TaxonomyOrder[i] = category

\* C3: the violations are exactly the categories with a keyword occurring
\* in the lower-cased text, in taxonomy definition order, each once;
\* compliant holds exactly when there are none; the empty text is compliant.
C3_ScreenExact ==
    op = "screen_esg_exclusions" =>
        LET text == lower(args.industry)
            v == ret.violations
            matching == { InitExclusionList[n].category : n \in
                            { m \in 1..Len(InitExclusionList) :
                                \E j \in 1..Len(InitExclusionList[m].industries) :
                                    contains(text, InitExclusionList[m].industries[j]) } }
        IN  /\ { v[i] : i \in 1..Len(v) } = matching
            /\ \A i \in 1..Len(v) : v[i] \in { TaxonomyOrder[k] : k \in 1..Len(TaxonomyOrder) }
            /\ \A i, j \in 1..Len(v) :
                   i < j => TaxonomyIndex(v[i]) < TaxonomyIndex(v[j])
            /\ ret.compliant <=> (Len(v) = 0)
            /\ (Len(args.industry) = 0) => (ret.compliant /\ v = << >>)

\* "Tobacco" precedes "coal_mining" in the text, fossil_fuels still comes first
C3_Witness ==
    /\ op = "screen_esg_exclusions"
    /\ args.industry = <<"T","o","b","a","c","c","o","c","o","a","l","_","m","i","n","i","n","g">>
    /\ ret.violations = <<"fossil_fuels", "ethical_concerns">>
    /\ ~ret.compliant

\* some sub-factor column named in the weight table is absent
missing_factor(company_data) == ~(FactorColumns \subseteq DOMAIN company_data)

\* C4: with a sub-factor column absent, the score operation does not return
\* a number, and no report carrying a recommendation is produced.
C4_MissingFactorIsError ==
    /\ (op = "calculate_climate_risk_score" /\ missing_factor(args))
           => ret \notin Int
    /\ (op = "generate_report" /\ ~load_raises(args) /\ missing_factor(args))
           => "recommendation" \notin DOMAIN ret

\* the labels of a sequence
Labels(seq) == { seq[i] : i \in 1..Len(seq) }

\* C5: with revenue 0 no result carries a label decided by the ratio rules.
C5_NoLabelFromZeroRevenue ==
    /\ (op = "generate_report" /\ "recommendation" \in DOMAIN ret
                               /\ args["revenue"] = 0)
           => /\ "High carbon intensity" \notin Labels(ret.esg_risks)
              /\ "Low-carbon competitive advantage"
                     \notin Labels(ret.climate_opportunities)
    /\ (op = "identify_esg_risks" /\ args["revenue"] = 0)
           => "High carbon intensity" \notin Labels(ret)
    /\ (op = "assess_opportunities" /\ args["revenue"] = 0)
           => "Low-carbon competitive advantage" \notin Labels(ret)

\* |x|
Abs(x) == IF x < 0 THEN -x ELSE x

\* C6: the reported climate_risk_score is the composite score rounded to
\* the nearest hundredth, while the recommendation of a compliant company
\* follows the unrounded composite score: above 5 it is never "Low risk",
\* even when the reported score is 5.0.
C6_RoundingOnlyInReport ==
    (op = "generate_report" /\ "recommendation" \in DOMAIN ret) =>
        LET x == calculate_climate_risk_score(climate_risk_factors, args)
        IN  /\ 2 * Abs(1000 * ret.climate_risk_score - x) <= 1000
            /\ ret.esg_compliant =>
                  /\ (ret.recommendation = LowRisk) <=> (x <= 5 * ScoreScale)
                  /\ (ret.recommendation = HighRisk) <=> (x > 8 * ScoreScale)
                  /\ ret.recommendation \in {LowRisk, ModerateRisk, HighRisk}

\* unrounded 5.0025 is reported as 5.0 and classified Moderate
C6_Witness ==
    /\ op = "generate_report"
    /\ "recommendation" \in DOMAIN ret
    /\ ret.esg_compliant
    /\ calculate_climate_risk_score(climate_risk_factors, args) = 500250
    /\ ret.climate_risk_score = 500
    /\ ret.recommendation = ModerateRisk

\* the labels of an ordered rule list whose condition holds, in rule order
Matching(rules) == SelectSeq(rules, LAMBDA rule : rule.holds)

RiskRules(company_data) == <<
    [label |-> "High carbon intensity",
     holds |-> company_data["carbon_footprint"] > 100 * company_data["revenue"]],
    [label |-> "High physical climate risk",
     holds |-> company_data["physical_risk_score"] > 700],
    [label |-> "High transition risk",
     holds |-> company_data["transition_risk_score"] > 600] >>

OpportunityRules(company_data) == <<
    [label |-> "Renewable energy market growth",
     holds |-> contains(lower(company_data["industry"]),
                        <<"r","e","n","e","w","a","b","l","e">>)],
    [label |-> "Low-carbon competitive advantage",
     holds |-> company_data["carbon_footprint"] < 50 * company_data["revenue"]],
    [label |-> "Green technology innovation",
     holds |-> contains(lower(company_data["industry"]), <<"g","r","e","e","n">>)] >>

RuleLabels(rules) == [i \in 1..Len(Matching(rules)) |-> Matching(rules)[i].label]

\* C7: with revenue above zero, the risks and the opportunities are exactly
\* the labels of the rules that hold, in rule order; every threshold is
\* strict.
C7_RiskAndOpportunityRules ==
    /\ (op = "identify_esg_risks" /\ args["revenue"] > 0)
           => ret = RuleLabels(RiskRules(args))
    /\ (op = "assess_opportunities" /\ args["revenue"] > 0)
           => ret = RuleLabels(OpportunityRules(args))
    /\ (op = "generate_report" /\ "recommendation" \in DOMAIN ret
                               /\ args["revenue"] > 0)
           => /\ ret.esg_risks = RuleLabels(RiskRules(args))
              /\ ret.climate_opportunities = RuleLabels(OpportunityRules(args))

\* the values 100, 7 and 6 add no risk
C7_Witness ==
    /\ op = "identify_esg_risks"
    /\ args["revenue"] = 1
    /\ args["carbon_footprint"] = 100
    /\ args["physical_risk_score"] = 700
    /\ args["transition_risk_score"] = 600
    /\ ret = << >>

RECURSIVE SumWeights(_, _)
SumWeights(dimension, n) ==
    IF n = 0 THEN 0 ELSE SumWeights(dimension, n - 1) + dimension[n].weight

\* C8: every weight is non-negative and the weights of each dimension sum
\* to 1.0 (100 hundredths).
C8_WeightsSumToOne ==
    \A d \in {climate_risk_factors.physical_risk,
              climate_risk_factors.transition_risk} :
        /\ \A n \in 1..Len(d) : d[n].weight >= 0
        /\ SumWeights(d, Len(d)) = 100

\* C9: whatever calls the tool has served, its two tables are as __init__
\* built them, and a report is the one a fresh tool returns for that input.
C9_RequestsIndependent ==
    /\ esg_exclusion_list = InitExclusionList
    /\ climate_risk_factors = InitRiskFactors
    /\ op = "generate_report" =>
           ret = generate_report(InitExclusionList, InitRiskFactors, args)

\* the second report of one tool, for a company that violates the list
C9_Witness ==
    /\ op = "generate_report"
    /\ reports = 2
    /\ "recommendation" \in DOMAIN ret
    /\ ret.esg_violations = <<"fossil_fuels", "ethical_concerns">>

\* all seven sub-factor columns are present with values in [0, 10]
factors_in_range(company_data) ==
    /\ FactorColumns \subseteq DOMAIN company_data
    /\ \A c \in FactorColumns : company_data[c] >= 0 /\ company_data[c] <= 1000

\* C10: with all seven sub-factors in [0, 10] the composite score lies in
\* [0, 6.9] and no report recommends "High risk".
C10_HighRiskUnreachableInRange ==
    /\ (op = "calculate_climate_risk_score" /\ factors_in_range(args))
           => (ret >= 0 /\ ret <= 690000)
    /\ (op = "generate_report" /\ "recommendation" \in DOMAIN ret
                               /\ factors_in_range(args))
           => /\ ret.climate_risk_score >= 0
              /\ ret.climate_risk_score <= 690
              /\ ret.recommendation \in {DoNotProceed, ModerateRisk, LowRisk}

\* every sub-factor at 10: the report shows 6.9, Moderate
C10_Witness ==
    /\ op = "generate_report"
    /\ "recommendation" \in DOMAIN ret
    /\ \A c \in FactorColumns : c \in DOMAIN args /\ args[c] = 1000
    /\ ret.esg_compliant
    /\ ret.climate_risk_score = 690
    /\ ret.recommendation = ModerateRisk

=============================================================================
